---- MODULE Spec2Model ----
(***************************************************************************)
(* Model of the storage service of the expense tracker                     *)
(* (src/services/storage.ts, src/types/monthPeriod.ts).                    *)
(*                                                                         *)
(* The three AsyncStorage keys that hold the ledger and the period         *)
(* registry are the variables expenses, income and periods: each is the    *)
(* JSON array stored under its key, in stored order (a missing key reads   *)
(* as the empty array, storage.ts:19, 79, 156).                            *)
(*                                                                         *)
(* Dates are instants on an integer time line whose unit is one hour.  An  *)
(* ISO string and the Date it was produced from carry the same instant     *)
(* (toISOString / new Date(iso) keep millisecond precision), and ids are   *)
(* only ever compared for equality, so a date field holds the instant and  *)
(* an id holds the number that getTime().toString() or                     *)
(* Date.now().toString() prints.                                           *)
(***************************************************************************)
EXTENDS Integers, Sequences, FiniteSets, TLC

VARIABLES expenses, income, periods, pin, recoveryCode, calls, now, last

vars == <<expenses, income, periods, pin, recoveryCode, calls, now, last>>

----------------------------------------------------------------------------
(* Bounds of the model *)

\* start dates offered to createCustomPeriod are 1..MaxStart
MaxStart == 3
\* createCustomPeriod is not called once MaxPeriods periods are stored
MaxPeriods == 3
\* add is not called once a collection holds MaxTx records
MaxTx == 2
\* amounts are 1..MaxAmount
MaxAmount == 2
\* Date.now() ranges over 1..MaxClock
MaxClock == 2

\* the last symbol of a recovery code is drawn from the first MaxDraw + 1
\* symbols of the alphabet
MaxDraw == 1

\* the calls that can be in flight together
MaxCallers == 2

\* where the aggregation engine is exercised: at most MaxStatsPeriods
\* periods, starting at 1..MaxStatsStart, and MaxStatsTx records in all
MaxStatsPeriods == 2
MaxStatsStart == 2
MaxStatsTx == 3

(* Program constant: the offset added by createMonthPeriod *)
PeriodDays == 30
\* setDate counts days of the local calendar, of HoursPerDay hours each
HoursPerDay == 24
\* the instants between a date and the same local time PeriodDays days on,
\* no change of the clocks in between
PeriodSpan == PeriodDays * HoursPerDay
\* the instant at which the time zone of the device ends daylight saving
\* time and puts its clocks back by one hour
DstEnd == 2 * PeriodSpan

StartDates == 1 .. MaxStart
\* ids passed to setActivePeriod, deletePeriod and the per-period queries:
\* every id a stored period can have, and one (0) that no period has
PeriodIds == 0 .. MaxStart
StatsStarts == 1 .. MaxStatsStart
StatsPeriodIds == 0 .. MaxStatsStart
\* start dates PeriodDays days before the clocks are put back, one hour
\* earlier than that, and just before and at the change itself
CalendarStarts == {DstEnd - PeriodSpan - 1, DstEnd - PeriodSpan, DstEnd - 1, DstEnd}
\* customName argument: NoName is undefined / the empty string
NoName == <<>>
CustomNames == {NoName, <<"Trip">>}
\* transaction dates: with periods starting at 1 and 2 these are a period's
\* first day, its last day and the day after, and the day before a start
TxDates == {1, PeriodSpan + 1, PeriodSpan + 2}
Amounts == 1 .. MaxAmount
Clock == 1 .. MaxClock
\* a record as the forms pass it to add
NewRecords == [amount : Amounts, date : TxDates]
\* ids passed to update and delete: every id add can assign, and one (0)
\* that it never assigns
TxIds == 0 .. MaxClock
\* a record as the edit form passes it to update
Records == [id : TxIds, amount : Amounts, date : TxDates]
\* the dates used where only the ledger is exercised
LedgerDates == {1, PeriodSpan + 1}
LedgerNewRecords == {r \in NewRecords : r.date \in LedgerDates}
LedgerRecords == {r \in Records : r.date \in LedgerDates}
\* the records used where storage failures are exercised
FaultNewRecords == {r \in NewRecords : r.date = 1}
FaultRecords == {r \in Records : r.date = 1}

\* the value of `period` / `deletedPeriod` when find() returns undefined
\* for (let i = 0; i < 8; i++): the symbols of a recovery code
CodeLength == 8
\* newPin.length < 4 is refused by the settings screen
MinPinLength == 4

NoPeriod == [id |-> -1]

\* the callers whose calls can be in flight together
Callers == 1 .. MaxCallers
\* a caller with no call in flight
Idle == [pc |-> "idle", op |-> "none", arg |-> <<>>, xs |-> <<>>,
         overlapped |-> FALSE, new |-> <<>>]
NoCalls == [c \in Callers |-> Idle]
\* the `out` field of an operation that returns nothing, and the `local`
\* field of one that has no local of interest
NoOut == <<>>
NoLocal == <<>>

----------------------------------------------------------------------------
(* Array helpers *)

\* Array.prototype.unshift
\* (mutant) the new element written alone
UnshiftAlone(s, x) == <<x>>

Unshift(s, x) == <<x>> \o s

\* xs.findIndex(x => x.id === id), 1-based; 0 when nothing matches (JS: -1)
IndexOfId(xs, id) ==
    IF \E i \in 1 .. Len(xs) : xs[i].id = id
    THEN CHOOSE i \in 1 .. Len(xs) :
             xs[i].id = id /\ \A j \in 1 .. (i - 1) : xs[j].id # id
    ELSE 0

\* ps.find(p => p.id === id); NoPeriod stands for undefined
FindById(ps, id) ==
    IF IndexOfId(ps, id) = 0 THEN NoPeriod ELSE ps[IndexOfId(ps, id)]

\* ps.find(p => p.isActive); NoPeriod stands for undefined
FindActive(ps) ==
    IF \E i \in 1 .. Len(ps) : ps[i].isActive
    THEN ps[CHOOSE i \in 1 .. Len(ps) :
                ps[i].isActive /\ \A j \in 1 .. (i - 1) : ~ps[j].isActive]
    ELSE NoPeriod

----------------------------------------------------------------------------
(* src/types/monthPeriod.ts *)

\* formatPeriodName: the label derived from the two dates
FormatPeriodName(startDate, endDate) == <<"range", startDate, endDate>>

\* how far the local clock is ahead of standard time at instant t
LocalOffset(t) == IF t < DstEnd THEN 1 ELSE 0

\* the instant a local time stands for: the earlier one of the hour that
\* the clocks go through twice
FromLocal(l) == IF l - 1 < DstEnd THEN l - 1 ELSE l

\* date.setDate(date.getDate() + days): the same local time, days days on
SetDate(t, days) == FromLocal(t + LocalOffset(t) + days * HoursPerDay)

\* createMonthPeriod
CreateMonthPeriod(startDate, customName, isActive) ==
    LET endDate == SetDate(startDate, PeriodDays)
    IN  [id        |-> startDate,
         startDate |-> startDate,
         endDate   |-> endDate,
         name      |-> IF customName # NoName THEN customName
                       ELSE FormatPeriodName(startDate, endDate),
         isActive  |-> isActive]

\* (mutant) isDateInPeriod with the end date excluded
isDateInPeriodOpenEnd(date, period) ==
    date >= period.startDate /\ date < period.endDate

\* isDateInPeriod
isDateInPeriod(date, period) ==
    date >= period.startDate /\ date <= period.endDate

----------------------------------------------------------------------------
(* Period registry: src/services/storage.ts, MONTH PERIOD FUNCTIONS *)

RECURSIVE InsertByStartAsc(_, _)
\* (mutant) one step of the sort with the comparator a - b: oldest first
InsertByStartAsc(sorted, p) ==
    IF sorted = <<>> THEN <<p>>
    ELSE IF Head(sorted).startDate <= p.startDate
         THEN <<Head(sorted)>> \o InsertByStartAsc(Tail(sorted), p)
         ELSE <<p>> \o sorted

RECURSIVE InsertByStartDesc(_, _)
\* one step of the stable sort: p goes after every element whose startDate
\* is not smaller than its own
InsertByStartDesc(sorted, p) ==
    IF sorted = <<>> THEN <<p>>
    ELSE IF Head(sorted).startDate >= p.startDate
         THEN <<Head(sorted)>> \o InsertByStartDesc(Tail(sorted), p)
         ELSE <<p>> \o sorted

RECURSIVE SortByStartDesc(_)
\* periods.sort((a, b) => b.startDate - a.startDate): descending, and
\* stable as Array.prototype.sort is since ES2019
SortByStartDesc(s) ==
    IF s = <<>> THEN <<>>
    ELSE InsertByStartDesc(SortByStartDesc(SubSeq(s, 1, Len(s) - 1)), s[Len(s)])

\* (mutant) getAllPeriods without the sort
getAllPeriodsUnsorted(stored, readFails) ==
    IF readFails THEN <<>> ELSE stored

\* getAllPeriods: the stored array sorted newest first; [] when the read fails
getAllPeriods(stored, readFails) ==
    IF readFails THEN <<>> ELSE SortByStartDesc(stored)

\* (mutant) getActivePeriod returning the newest period, active or not
getActivePeriodNewest(stored, readFails) ==
    LET ps == getAllPeriods(stored, readFails)
    IN  IF ps = <<>> THEN NoPeriod ELSE ps[1]

\* getActivePeriod: the first active period of getAllPeriods, or none
getActivePeriod(stored, readFails) ==
    FindActive(getAllPeriods(stored, readFails))

\* (mutant) setActivePeriod building each period anew from its start date
setActiveWritesRebuilding(ps, periodId) ==
    [i \in 1 .. Len(ps) |->
        CreateMonthPeriod(ps[i].startDate, NoName, ps[i].id = periodId)]

\* setActivePeriod, the array it writes
setActiveWrites(ps, periodId) ==
    [i \in 1 .. Len(ps) |-> [ps[i] EXCEPT !.isActive = (ps[i].id = periodId)]]

\* (mutant) createCustomPeriod without the deactivation of the stored periods
createWritesKeepingActive(ps, startDate, customName) ==
    Unshift(ps, CreateMonthPeriod(startDate, customName, TRUE))

\* createCustomPeriod, the array it writes
createWrites(ps, startDate, customName) ==
    LET updatedPeriods == [i \in 1 .. Len(ps) |-> [ps[i] EXCEPT !.isActive = FALSE]]
    IN  Unshift(updatedPeriods, CreateMonthPeriod(startDate, customName, TRUE))

\* deletePeriod, the value of deletedPeriod
deletedPeriodOf(ps, periodId) == FindById(ps, periodId)

\* deletePeriod, the array it writes
deleteWrites(ps, periodId) ==
    LET Other(p) == p.id # periodId
        filteredPeriods == SelectSeq(ps, Other)
        deletedPeriod == deletedPeriodOf(ps, periodId)
    IN  IF deletedPeriod # NoPeriod /\ deletedPeriod.isActive /\ Len(filteredPeriods) > 0
        THEN [filteredPeriods EXCEPT ![1].isActive = TRUE]
        ELSE filteredPeriods

\* the AsyncStorage.getItem calls that failed (rejected or returned content
\* JSON.parse throws on), out of the flags of one call
Failed(flags) == {k \in DOMAIN flags : flags[k]}

\* The outcome of an operation: its name, its argument, the reads of it
\* that failed, what became of the
\* AsyncStorage.setItem / removeItem it called ("none": it called neither,
\* "done", "failed"), how it ended ("ok": the promise resolved, "threw": it
\* rejected), the local it computed (deletedPeriod, index, newExpense,
\* newIncome) and what it returned
Outcome(op, arg, reads, wrote, ret, local, out) ==
    [op |-> op, arg |-> arg, reads |-> reads, wrote |-> wrote, ret |-> ret,
     local |-> local, out |-> out]

\* what becomes of a write that is attempted
Attempt(writeFails) == IF writeFails THEN "failed" ELSE "done"

\* catch (error) { console.error(...); throw error; }
Rethrown(wrote) == IF wrote = "failed" THEN "threw" ELSE "ok"

\* catch (error) { console.error(...); }
Swallowed(wrote) == "ok"

\* setActivePeriod(periodId)
SetActivePeriod(periodId, readFails, writeFails) ==
    /\ periods' = IF writeFails THEN periods
                  ELSE setActiveWrites(getAllPeriods(periods, readFails), periodId)
    /\ last' = Outcome("setActivePeriod", periodId, Failed([read |-> readFails]),
                       Attempt(writeFails), Rethrown(Attempt(writeFails)), NoLocal, NoOut)
    /\ UNCHANGED <<expenses, income, now, pin, recoveryCode, calls>>

\* createCustomPeriod(startDate, customName)
CreateCustomPeriod(startDate, customName, readFails, writeFails) ==
    /\ Len(periods) < MaxPeriods
    /\ periods' = IF writeFails THEN periods
                  ELSE createWrites(getAllPeriods(periods, readFails), startDate, customName)
    /\ last' = Outcome("createCustomPeriod",
                       [startDate |-> startDate, customName |-> customName],
                       Failed([read |-> readFails]),
                       Attempt(writeFails), Rethrown(Attempt(writeFails)), NoLocal,
                       IF writeFails THEN NoOut
                       ELSE CreateMonthPeriod(startDate, customName, TRUE))
    /\ UNCHANGED <<expenses, income, now, pin, recoveryCode, calls>>

\* (mutant) deletePeriod removing the transactions dated in the period too
DeletePeriodCascading(periodId, readFails, writeFails) ==
    LET deletedPeriod == deletedPeriodOf(getAllPeriods(periods, readFails), periodId)
        Outside(t) == deletedPeriod = NoPeriod \/ ~isDateInPeriod(t.date, deletedPeriod)
    IN  /\ periods' = IF writeFails THEN periods
                      ELSE deleteWrites(getAllPeriods(periods, readFails), periodId)
        /\ expenses' = SelectSeq(expenses, Outside)
        /\ income' = SelectSeq(income, Outside)
        /\ last' = Outcome("deletePeriod", periodId, Failed([read |-> readFails]),
                           Attempt(writeFails), Rethrown(Attempt(writeFails)),
                           deletedPeriod, NoOut)
        /\ UNCHANGED <<now, pin, recoveryCode, calls>>

\* deletePeriod(periodId)
DeletePeriod(periodId, readFails, writeFails) ==
    /\ periods' = IF writeFails THEN periods
                  ELSE deleteWrites(getAllPeriods(periods, readFails), periodId)
    /\ last' = Outcome("deletePeriod", periodId, Failed([read |-> readFails]),
                       Attempt(writeFails), Rethrown(Attempt(writeFails)),
                       deletedPeriodOf(getAllPeriods(periods, readFails), periodId),
                       NoOut)
    /\ UNCHANGED <<expenses, income, now, pin, recoveryCode, calls>>

----------------------------------------------------------------------------
(* Ledger store: src/services/storage.ts, EXPENSE FUNCTIONS and INCOME       *)
(* FUNCTIONS.  A record is [id, amount, date]; description and category /   *)
(* source are carried exactly as amount is and are folded into it.          *)

\* (mutant) getExpenses returning the stored array whatever the read does
getExpensesIgnoringFailure(stored, readFails) == stored

\* getExpenses: the stored array; [] when the read or the parse fails
getExpenses(stored, readFails) == IF readFails THEN <<>> ELSE stored

\* getIncome: the stored array; [] when the read or the parse fails
getIncome(stored, readFails) == IF readFails THEN <<>> ELSE stored

\* { ...expense, id: Date.now().toString() }
WithId(record, clock) ==
    [id |-> clock, amount |-> record.amount, date |-> record.date]

\* (mutant) addExpense pushing the new record to the end
AddExpensePushing(expense, clock, readFails, writeFails) ==
    /\ Len(expenses) < MaxTx
    /\ clock >= now
    /\ now' = clock
    /\ LET xs == getExpenses(expenses, readFails)
           newExpense == WithId(expense, clock)
       IN  /\ expenses' = IF writeFails THEN expenses ELSE xs \o <<newExpense>>
           /\ last' = Outcome("addExpense", expense, Failed([read |-> readFails]),
                              Attempt(writeFails), Rethrown(Attempt(writeFails)), newExpense, NoOut)
    /\ UNCHANGED <<income, periods, pin, recoveryCode, calls>>

\* addExpense(expense), Date.now() reading `clock`
AddExpense(expense, clock, readFails, writeFails) ==
    /\ Len(expenses) < MaxTx
    /\ clock >= now
    /\ now' = clock
    /\ LET xs == getExpenses(expenses, readFails)
           newExpense == WithId(expense, clock)
       IN  /\ expenses' = IF writeFails THEN expenses ELSE Unshift(xs, newExpense)
           /\ last' = Outcome("addExpense", expense, Failed([read |-> readFails]),
                              Attempt(writeFails), Rethrown(Attempt(writeFails)), newExpense, NoOut)
    /\ UNCHANGED <<income, periods, pin, recoveryCode, calls>>

\* updateExpense(updatedExpense)
UpdateExpense(updatedExpense, readFails, writeFails) ==
    /\ LET xs == getExpenses(expenses, readFails)
           index == IndexOfId(xs, updatedExpense.id)
       IN  /\ expenses' = IF index # 0 /\ ~writeFails
                          THEN [xs EXCEPT ![index] = updatedExpense]
                          ELSE expenses
           /\ last' = Outcome("updateExpense", updatedExpense, Failed([read |-> readFails]),
                              IF index # 0 THEN Attempt(writeFails) ELSE "none",
                              Rethrown(IF index # 0 THEN Attempt(writeFails) ELSE "none"),
                              index, NoOut)
    /\ UNCHANGED <<income, periods, now, pin, recoveryCode, calls>>

\* (mutant) deleteExpense keeping the records of the id instead of the others
DeleteExpenseKeepingMatches(id, readFails, writeFails) ==
    /\ LET xs == getExpenses(expenses, readFails)
           Same(e) == e.id = id
       IN  expenses' = IF writeFails THEN expenses ELSE SelectSeq(xs, Same)
    /\ last' = Outcome("deleteExpense", id, Failed([read |-> readFails]),
                       Attempt(writeFails), Rethrown(Attempt(writeFails)), NoLocal, NoOut)
    /\ UNCHANGED <<income, periods, now, pin, recoveryCode, calls>>

\* deleteExpense(id)
DeleteExpense(id, readFails, writeFails) ==
    /\ LET xs == getExpenses(expenses, readFails)
           Other(e) == e.id # id
       IN  expenses' = IF writeFails THEN expenses ELSE SelectSeq(xs, Other)
    /\ last' = Outcome("deleteExpense", id, Failed([read |-> readFails]),
                       Attempt(writeFails), Rethrown(Attempt(writeFails)), NoLocal, NoOut)
    /\ UNCHANGED <<income, periods, now, pin, recoveryCode, calls>>

\* clearExpenses(): the catch block logs and does not rethrow
ClearExpenses(removeFails) ==
    /\ expenses' = IF removeFails THEN expenses ELSE <<>>
    /\ last' = Outcome("clearExpenses", 0, {}, Attempt(removeFails),
                       Swallowed(Attempt(removeFails)), NoLocal, NoOut)
    /\ UNCHANGED <<income, periods, now, pin, recoveryCode, calls>>

\* addIncome(income), Date.now() reading `clock`
AddIncome(newRecord, clock, readFails, writeFails) ==
    /\ Len(income) < MaxTx
    /\ clock >= now
    /\ now' = clock
    /\ LET allIncome == getIncome(income, readFails)
           newIncome == WithId(newRecord, clock)
       IN  /\ income' = IF writeFails THEN income ELSE Unshift(allIncome, newIncome)
           /\ last' = Outcome("addIncome", newRecord, Failed([read |-> readFails]),
                              Attempt(writeFails), Rethrown(Attempt(writeFails)), newIncome, NoOut)
    /\ UNCHANGED <<expenses, periods, pin, recoveryCode, calls>>

\* updateIncome(updatedIncome)
UpdateIncome(updatedIncome, readFails, writeFails) ==
    /\ LET allIncome == getIncome(income, readFails)
           index == IndexOfId(allIncome, updatedIncome.id)
       IN  /\ income' = IF index # 0 /\ ~writeFails
                        THEN [allIncome EXCEPT ![index] = updatedIncome]
                        ELSE income
           /\ last' = Outcome("updateIncome", updatedIncome, Failed([read |-> readFails]),
                              IF index # 0 THEN Attempt(writeFails) ELSE "none",
                              Rethrown(IF index # 0 THEN Attempt(writeFails) ELSE "none"),
                              index, NoOut)
    /\ UNCHANGED <<expenses, periods, now, pin, recoveryCode, calls>>

\* deleteIncome(id)
DeleteIncome(id, readFails, writeFails) ==
    /\ LET allIncome == getIncome(income, readFails)
           Other(i) == i.id # id
       IN  income' = IF writeFails THEN income ELSE SelectSeq(allIncome, Other)
    /\ last' = Outcome("deleteIncome", id, Failed([read |-> readFails]),
                       Attempt(writeFails), Rethrown(Attempt(writeFails)), NoLocal, NoOut)
    /\ UNCHANGED <<expenses, periods, now, pin, recoveryCode, calls>>

\* clearIncome(): the catch block logs and does not rethrow
ClearIncome(removeFails) ==
    /\ income' = IF removeFails THEN income ELSE <<>>
    /\ last' = Outcome("clearIncome", 0, {}, Attempt(removeFails),
                       Swallowed(Attempt(removeFails)), NoLocal, NoOut)
    /\ UNCHANGED <<expenses, periods, now, pin, recoveryCode, calls>>

----------------------------------------------------------------------------
(* Filtered data and calculation functions: src/services/storage.ts.        *)
(* Each function reads the keys it needs itself; the read-failure flags     *)
(* are, in call order, one per AsyncStorage.getItem the function performs.  *)

\* getExpensesForPeriod(periodId)
getExpensesForPeriod(periodId, periodsFail, expensesFail) ==
    LET period == FindById(getAllPeriods(periods, periodsFail), periodId)
        InPeriod(expense) == isDateInPeriod(expense.date, period)
    IN  IF period = NoPeriod THEN <<>>
        ELSE SelectSeq(getExpenses(expenses, expensesFail), InPeriod)

\* (mutant) getIncomeForPeriod returning every record for an unknown period
getIncomeForPeriodNoGuard(periodId, periodsFail, incomeFail) ==
    LET period == FindById(getAllPeriods(periods, periodsFail), periodId)
        InPeriod(i) == isDateInPeriod(i.date, period)
    IN  IF period = NoPeriod THEN getIncome(income, incomeFail)
        ELSE SelectSeq(getIncome(income, incomeFail), InPeriod)

\* getIncomeForPeriod(periodId)
getIncomeForPeriod(periodId, periodsFail, incomeFail) ==
    LET period == FindById(getAllPeriods(periods, periodsFail), periodId)
        InPeriod(i) == isDateInPeriod(i.date, period)
    IN  IF period = NoPeriod THEN <<>>
        ELSE SelectSeq(getIncome(income, incomeFail), InPeriod)

\* getExpensesForCurrentMonth()
getExpensesForCurrentMonth(periodsFail, expensesFail) ==
    LET period == getActivePeriod(periods, periodsFail)
        InPeriod(expense) == isDateInPeriod(expense.date, period)
    IN  IF period = NoPeriod THEN <<>>
        ELSE SelectSeq(getExpenses(expenses, expensesFail), InPeriod)

\* getIncomeForCurrentMonth()
getIncomeForCurrentMonth(periodsFail, incomeFail) ==
    LET period == getActivePeriod(periods, periodsFail)
        InPeriod(i) == isDateInPeriod(i.date, period)
    IN  IF period = NoPeriod THEN <<>>
        ELSE SelectSeq(getIncome(income, incomeFail), InPeriod)

RECURSIVE ReduceSum(_, _)
\* items.reduce((sum, item) => sum + item.amount, sum)
ReduceSum(items, sum) ==
    IF items = <<>> THEN sum
    ELSE ReduceSum(Tail(items), sum + Head(items).amount)

\* (mutant) the totals with the balance taken the wrong way round
TotalsOfSwapped(incomeItems, expenseItems) ==
    LET totalIncome == ReduceSum(incomeItems, 0)
        totalExpenses == ReduceSum(expenseItems, 0)
    IN  [totalIncome   |-> totalIncome,
         totalExpenses |-> totalExpenses,
         balance       |-> totalExpenses - totalIncome,
         incomeCount   |-> Len(incomeItems),
         expenseCount  |-> Len(expenseItems)]

\* the object calculateStatsForPeriod and calculateMonthlyTotals build from
\* the two filtered lists
TotalsOf(incomeItems, expenseItems) ==
    LET totalIncome == ReduceSum(incomeItems, 0)
        totalExpenses == ReduceSum(expenseItems, 0)
    IN  [totalIncome   |-> totalIncome,
         totalExpenses |-> totalExpenses,
         balance       |-> totalIncome - totalExpenses,
         incomeCount   |-> Len(incomeItems),
         expenseCount  |-> Len(expenseItems)]

\* the read failures of one calculation: periods and income for the income
\* side, then periods and expenses for the expense side
NoReadFails == [p1 |-> FALSE, inc |-> FALSE, p2 |-> FALSE, exp |-> FALSE]
ReadFails == [p1 : BOOLEAN, inc : BOOLEAN, p2 : BOOLEAN, exp : BOOLEAN]

\* calculateStatsForPeriod(periodId)
calculateStatsForPeriod(periodId, f) ==
    TotalsOf(getIncomeForPeriod(periodId, f.p1, f.inc),
             getExpensesForPeriod(periodId, f.p2, f.exp))

\* calculateMonthlyTotals()
calculateMonthlyTotals(f) ==
    TotalsOf(getIncomeForCurrentMonth(f.p1, f.inc),
             getExpensesForCurrentMonth(f.p2, f.exp))

\* a read-only call: the stored values stay, the result is recorded
Query(op, arg, reads, out) ==
    /\ last' = Outcome(op, arg, reads, "none", "ok", NoLocal, out)
    /\ UNCHANGED <<expenses, income, periods, now, pin, recoveryCode, calls>>

GetExpensesForPeriod(periodId, periodsFail, expensesFail) ==
    Query("getExpensesForPeriod", periodId,
          Failed([p2 |-> periodsFail, exp |-> expensesFail]),
          getExpensesForPeriod(periodId, periodsFail, expensesFail))

GetIncomeForPeriod(periodId, periodsFail, incomeFail) ==
    Query("getIncomeForPeriod", periodId,
          Failed([p1 |-> periodsFail, inc |-> incomeFail]),
          getIncomeForPeriod(periodId, periodsFail, incomeFail))

CalculateStatsForPeriod(periodId, f) ==
    Query("calculateStatsForPeriod", periodId, Failed(f),
          calculateStatsForPeriod(periodId, f))

CalculateMonthlyTotals(f) ==
    Query("calculateMonthlyTotals", 0, Failed(f), calculateMonthlyTotals(f))

\* the list() and getActive() calls of the screens
GetExpenses(readFails) ==
    Query("getExpenses", 0, Failed([exp |-> readFails]),
          getExpenses(expenses, readFails))

GetIncome(readFails) ==
    Query("getIncome", 0, Failed([inc |-> readFails]),
          getIncome(income, readFails))

GetAllPeriods(readFails) ==
    Query("getAllPeriods", 0, Failed([p1 |-> readFails]),
          getAllPeriods(periods, readFails))

GetActivePeriod(readFails) ==
    Query("getActivePeriod", 0, Failed([p1 |-> readFails]),
          getActivePeriod(periods, readFails))

----------------------------------------------------------------------------
(* PIN functions: src/services/storage.ts.  The keys PIN_STORAGE_KEY and    *)
(* RECOVERY_CODE_KEY are the variables pin and recoveryCode.  A string is    *)
(* the sequence of its characters; Null is what getItem returns for a key    *)
(* that holds nothing.                                                       *)

Null == <<"null">>

\* const chars = 'ABCDEFGHJKLMNPQRSTUVWXYZ23456789'
chars ==
    <<"A", "B", "C", "D", "E", "F", "G", "H", "J", "K", "L", "M", "N", "P", "Q", "R",
      "S", "T", "U", "V", "W", "X", "Y", "Z", "2", "3", "4", "5", "6", "7", "8", "9">>

\* the draws of one generateRecoveryCode call, each being
\* Math.floor(Math.random() * chars.length): every symbol but the last
\* draws 0, the last draws 0..MaxDraw
Draws ==
    {[i \in 1 .. CodeLength |-> IF i = CodeLength THEN k ELSE 0] : k \in 0 .. MaxDraw}

\* generateRecoveryCode(), Math.random() giving the draws `draw`
generateRecoveryCode(draw) ==
    LET code == [i \in 1 .. CodeLength |-> chars[draw[i] + 1]]
    IN  SubSeq(code, 1, 4) \o <<"-">> \o SubSeq(code, 5, Len(code))

LowerLetters ==
    <<"a", "b", "c", "d", "e", "f", "g", "h", "i", "j", "k", "l", "m",
      "n", "o", "p", "q", "r", "s", "t", "u", "v", "w", "x", "y", "z">>

UpperLetters ==
    <<"A", "B", "C", "D", "E", "F", "G", "H", "I", "J", "K", "L", "M",
      "N", "O", "P", "Q", "R", "S", "T", "U", "V", "W", "X", "Y", "Z">>

\* String.prototype.toUpperCase on ASCII
toUpperCase(s) ==
    [i \in 1 .. Len(s) |->
        IF \E k \in 1 .. Len(LowerLetters) : LowerLetters[k] = s[i]
        THEN UpperLetters[CHOOSE k \in 1 .. Len(LowerLetters) : LowerLetters[k] = s[i]]
        ELSE s[i]]

\* the characters /[\s-]/ matches, of those that occur in the inputs
Separators == {" ", "\t", "\n", "-"}

\* .replace(/[\s-]/g, '')
RemoveSeparators(s) ==
    LET Kept(c) == c \notin Separators
    IN  SelectSeq(s, Kept)

\* getPIN: the stored PIN; null when nothing is stored or the read fails
getPIN(stored, readFails) == IF readFails THEN Null ELSE stored

\* getRecoveryCode: the stored code; null when nothing is stored or the
\* read fails
getRecoveryCode(stored, readFails) == IF readFails THEN Null ELSE stored

\* verifyPIN(pin): storedPIN === pin
verifyPIN(p, stored, readFails) ==
    LET storedPIN == getPIN(stored, readFails)
    IN  storedPIN = p

\* (mutant) verifyRecoveryCode comparing the strings as they are
verifyRecoveryCodeExact(code, stored, readFails) ==
    getRecoveryCode(stored, readFails) = code

\* verifyRecoveryCode(code)
verifyRecoveryCode(code, stored, readFails) ==
    LET storedCode == getRecoveryCode(stored, readFails)
        normalizedInput == RemoveSeparators(toUpperCase(code))
        normalizedStored == IF storedCode = Null THEN <<>>
                            ELSE RemoveSeparators(toUpperCase(storedCode))
    IN  normalizedInput = normalizedStored

\* setupPIN(pin): setPIN(pin), then setRecoveryCode() with a generated code
SetupPIN(p, draw, pinWriteFails, codeWriteFails) ==
    LET wrote == Attempt(pinWriteFails \/ codeWriteFails)
        code == generateRecoveryCode(draw)
    IN  /\ pin' = IF pinWriteFails THEN pin ELSE p
        /\ recoveryCode' = IF wrote = "failed" THEN recoveryCode ELSE code
        /\ last' = Outcome("setupPIN", p, {}, wrote, Rethrown(wrote), NoLocal,
                           IF wrote = "failed" THEN NoOut ELSE code)
        /\ UNCHANGED <<expenses, income, periods, calls, now>>

VerifyPIN(p, readFails) ==
    Query("verifyPIN", p, Failed([pin |-> readFails]), verifyPIN(p, pin, readFails))

VerifyRecoveryCode(code, readFails) ==
    Query("verifyRecoveryCode", code, Failed([code |-> readFails]),
          verifyRecoveryCode(code, recoveryCode, readFails))

\* (mutant) resetPINWithRecoveryCode writing whatever the check says
ResetPINWithRecoveryCodeUnchecked(code, newPIN, draw, readFails, pinWriteFails, codeWriteFails) ==
    LET isValid == verifyRecoveryCode(code, recoveryCode, readFails)
        wrote == Attempt(pinWriteFails \/ codeWriteFails)
    IN  /\ pin' = IF ~pinWriteFails THEN newPIN ELSE pin
        /\ recoveryCode' = IF wrote = "done" THEN generateRecoveryCode(draw)
                           ELSE recoveryCode
        /\ last' = Outcome("resetPINWithRecoveryCode",
                           [recoveryCode |-> code, newPIN |-> newPIN],
                           Failed([code |-> readFails]), wrote, "ok", isValid,
                           isValid /\ wrote = "done")
        /\ UNCHANGED <<expenses, income, periods, calls, now>>

\* resetPINWithRecoveryCode(recoveryCode, newPIN): every failure is caught
\* and turned into the result false
ResetPINWithRecoveryCode(code, newPIN, draw, readFails, pinWriteFails, codeWriteFails) ==
    LET isValid == verifyRecoveryCode(code, recoveryCode, readFails)
        wrote == IF isValid THEN Attempt(pinWriteFails \/ codeWriteFails) ELSE "none"
    IN  /\ pin' = IF isValid /\ ~pinWriteFails THEN newPIN ELSE pin
        /\ recoveryCode' = IF wrote = "done" THEN generateRecoveryCode(draw)
                           ELSE recoveryCode
        /\ last' = Outcome("resetPINWithRecoveryCode",
                           [recoveryCode |-> code, newPIN |-> newPIN],
                           Failed([code |-> readFails]), wrote, "ok", isValid,
                           wrote = "done")
        /\ UNCHANGED <<expenses, income, periods, calls, now>>

\* clearPINData(): removeItem of the PIN, then of the recovery code
ClearPINData(pinRemoveFails, codeRemoveFails) ==
    LET wrote == Attempt(pinRemoveFails \/ codeRemoveFails)
    IN  /\ pin' = IF pinRemoveFails THEN pin ELSE Null
        /\ recoveryCode' = IF wrote = "failed" THEN recoveryCode ELSE Null
        /\ last' = Outcome("clearPINData", 0, {}, wrote, Rethrown(wrote), NoLocal, NoOut)
        /\ UNCHANGED <<expenses, income, periods, calls, now>>

\* (mutant) the change-PIN handler without the check of the current PIN
handleChangePINSubmitUnverified(currentPin, newPin, confirmPin, readFails, writeFails) ==
    LET isCurrentValid == verifyPIN(currentPin, pin, readFails)
        accepted == Len(newPin) >= MinPinLength /\ newPin = confirmPin
        wrote == IF accepted THEN Attempt(writeFails) ELSE "none"
    IN  /\ pin' = IF wrote = "done" THEN newPin ELSE pin
        /\ last' = Outcome("handleChangePINSubmit",
                           [currentPin |-> currentPin, newPin |-> newPin,
                            confirmPin |-> confirmPin],
                           Failed([pin |-> readFails]), wrote, "ok", isCurrentValid, NoOut)
        /\ UNCHANGED <<expenses, income, periods, recoveryCode, calls, now>>

\* handleChangePINSubmit of the settings screen
\* (src/components/SettingsScreen.tsx), the three fields as entered
handleChangePINSubmit(currentPin, newPin, confirmPin, readFails, writeFails) ==
    LET isCurrentValid == verifyPIN(currentPin, pin, readFails)
        accepted == isCurrentValid /\ Len(newPin) >= MinPinLength /\ newPin = confirmPin
        wrote == IF accepted THEN Attempt(writeFails) ELSE "none"
    IN  /\ pin' = IF wrote = "done" THEN newPin ELSE pin
        /\ last' = Outcome("handleChangePINSubmit",
                           [currentPin |-> currentPin, newPin |-> newPin,
                            confirmPin |-> confirmPin],
                           Failed([pin |-> readFails]), wrote, "ok", isCurrentValid, NoOut)
        /\ UNCHANGED <<expenses, income, periods, recoveryCode, calls, now>>

\* the PINs entered: two of four digits and one that is too short
Pins == {<<"1", "2", "3", "4">>, <<"4", "3", "2", "1">>, <<"1", "2", "3">>}

\* the PINs of four digits
FramePins == {p \in Pins : Len(p) >= MinPinLength}

\* the codes generateRecoveryCode can return
GeneratedCodes == {generateRecoveryCode(d) : d \in Draws}

\* String.prototype.toLowerCase on ASCII, for the codes a user types
toLowerCase(s) ==
    [i \in 1 .. Len(s) |->
        IF \E k \in 1 .. Len(UpperLetters) : UpperLetters[k] = s[i]
        THEN LowerLetters[CHOOSE k \in 1 .. Len(UpperLetters) : UpperLetters[k] = s[i]]
        ELSE s[i]]

\* the recovery codes entered: each generated code as issued, without its
\* dash, in lower case with and without it, and with white space around
\* it, a code never issued, the empty string and a lone dash
CodeInputs ==
    UNION {{g, RemoveSeparators(g), toLowerCase(g), toLowerCase(RemoveSeparators(g)),
            <<" ">> \o g \o <<"\n">>} : g \in GeneratedCodes}
        \cup {<<"Z", "Z", "Z", "Z", "-", "Z", "Z", "Z", "Z">>, <<>>, <<"-">>}

----------------------------------------------------------------------------
(* Calls in flight together.  addExpense and addIncome await the read of    *)
(* the collection, and everything after the await runs when the read has    *)
(* been served, so another call can run in between.  calls[c] holds what    *)
(* caller c's call has in its locals while it is suspended.                 *)

\* addExpense / addIncome up to the await: the call is made with `record`
\* and its getItem is served
AddReads(c, op, record) ==
    /\ calls[c].pc # "read"
    /\ LET stored == IF op = "addExpense" THEN getExpenses(expenses, FALSE)
                     ELSE getIncome(income, FALSE)
       IN  /\ Len(stored) < MaxTx
           /\ calls' = [calls EXCEPT ![c] =
                            [pc |-> "read", op |-> op, arg |-> record, xs |-> stored,
                             overlapped |-> FALSE, new |-> <<>>]]
    /\ UNCHANGED <<expenses, income, periods, pin, recoveryCode, now, last>>

\* addExpense / addIncome after the await: Date.now() reads `clock`, the
\* array built from what was read is written and the call resolves.  The
\* calls still suspended on the same collection have been overlapped.
AddWrites(c, clock) ==
    /\ calls[c].pc = "read"
    /\ clock >= now
    /\ now' = clock
    /\ LET call == calls[c]
           new == WithId(call.arg, clock)
           written == Unshift(call.xs, new)
       IN  /\ expenses' = IF call.op = "addExpense" THEN written ELSE expenses
           /\ income' = IF call.op = "addIncome" THEN written ELSE income
           /\ calls' = [d \in Callers |->
                            IF d = c THEN [call EXCEPT !.pc = "done", !.new = new]
                            ELSE IF calls[d].pc = "read" /\ calls[d].op = call.op
                                 THEN [calls[d] EXCEPT !.overlapped = TRUE]
                                 ELSE calls[d]]
           /\ last' = Outcome(call.op, call.arg, {}, "done", "ok", new, NoOut)
    /\ UNCHANGED <<periods, pin, recoveryCode>>

\* calculateMonthlyTotals() up to the await of getExpensesForCurrentMonth:
\* getIncomeForCurrentMonth has read the active period and the income,
\* and its result is the local `income`
TotalsReadsIncome(c) ==
    /\ calls[c].pc \notin {"read", "income"}
    /\ calls' = [calls EXCEPT ![c] =
                     [pc |-> "income", op |-> "calculateMonthlyTotals", arg |-> <<>>,
                      xs |-> getIncomeForCurrentMonth(FALSE, FALSE),
                      overlapped |-> FALSE, new |-> <<>>]]
    /\ UNCHANGED <<expenses, income, periods, pin, recoveryCode, now, last>>

\* calculateMonthlyTotals() after that await: getExpensesForCurrentMonth
\* reads the active period and the expenses, and the totals are returned
TotalsReadsExpenses(c) ==
    /\ calls[c].pc = "income"
    /\ calls' = [calls EXCEPT ![c].pc = "done"]
    /\ last' = Outcome("calculateMonthlyTotals", 0, {}, "none", "ok", NoLocal,
                       TotalsOf(calls[c].xs, getExpensesForCurrentMonth(FALSE, FALSE)))
    /\ UNCHANGED <<expenses, income, periods, pin, recoveryCode, now>>

\* setActivePeriod / createCustomPeriod / deletePeriod up to the await of
\* setItem: the call is made with `arg` (an id, or a start date for
\* create) and its getAllPeriods() is served
PeriodReads(c, op, arg) ==
    /\ calls[c].pc \notin {"read", "income"}
    /\ calls' = [calls EXCEPT ![c] =
                     [pc |-> "read", op |-> op, arg |-> arg,
                      xs |-> getAllPeriods(periods, FALSE),
                      overlapped |-> FALSE, new |-> <<>>]]
    /\ UNCHANGED <<expenses, income, periods, pin, recoveryCode, now, last>>

\* the same call after its read: the array is built from what was read and
\* setItem stores it
PeriodWrites(c) ==
    /\ calls[c].pc = "read"
    /\ calls[c].op \in {"setActivePeriod", "createCustomPeriod", "deletePeriod"}
    /\ LET call == calls[c]
       IN  /\ periods' =
                 CASE call.op = "setActivePeriod" -> setActiveWrites(call.xs, call.arg)
                   [] call.op = "createCustomPeriod"
                        -> createWrites(call.xs, call.arg, NoName)
                   [] call.op = "deletePeriod" -> deleteWrites(call.xs, call.arg)
           /\ last' = Outcome(call.op, call.arg, {}, "done", "ok",
                              IF call.op = "deletePeriod"
                              THEN deletedPeriodOf(call.xs, call.arg) ELSE NoLocal,
                              IF call.op = "createCustomPeriod"
                              THEN CreateMonthPeriod(call.arg, NoName, TRUE) ELSE NoOut)
           /\ calls' = [calls EXCEPT ![c].pc = "done"]
    /\ UNCHANGED <<expenses, income, pin, recoveryCode, now>>

----------------------------------------------------------------------------
(* Specifications *)

Init ==
    /\ expenses = <<>>
    /\ income = <<>>
    /\ periods = <<>>
    /\ pin = Null
    /\ recoveryCode = Null
    /\ calls = NoCalls
    /\ now = 1
    /\ last = Outcome("init", 0, {}, "none", "ok", NoLocal, NoOut)

\* The period registry, every call run to completion, storage never failing
RegistryNext ==
    \/ \E d \in StartDates, n \in CustomNames : CreateCustomPeriod(d, n, FALSE, FALSE)
    \/ \E id \in PeriodIds : SetActivePeriod(id, FALSE, FALSE)
    \/ \E id \in PeriodIds : DeletePeriod(id, FALSE, FALSE)

SpecRegistry == Init /\ [][RegistryNext]_vars

\* The ledger store, every call run to completion, storage never failing
LedgerNext ==
    \/ \E r \in LedgerNewRecords, t \in Clock : AddExpense(r, t, FALSE, FALSE)
    \/ \E r \in LedgerRecords : UpdateExpense(r, FALSE, FALSE)
    \/ \E id \in TxIds : DeleteExpense(id, FALSE, FALSE)
    \/ ClearExpenses(FALSE)
    \/ \E r \in LedgerNewRecords, t \in Clock : AddIncome(r, t, FALSE, FALSE)
    \/ \E r \in LedgerRecords : UpdateIncome(r, FALSE, FALSE)
    \/ \E id \in TxIds : DeleteIncome(id, FALSE, FALSE)
    \/ ClearIncome(FALSE)

SpecLedger == Init /\ [][LedgerNext]_vars

\* The aggregation engine over the registry and the ledger: periods are
\* created, activated and deleted, records are added, and the stored state
\* is queried.  The queries never look at a record's id, so every add
\* reads the same clock value here; at most MaxStatsTx records and
\* MaxStatsPeriods periods are stored.
StatsNext ==
    \/ \E d \in StatsStarts :
          Len(periods) < MaxStatsPeriods /\ CreateCustomPeriod(d, NoName, FALSE, FALSE)
    \/ \E id \in StatsPeriodIds : SetActivePeriod(id, FALSE, FALSE)
    \/ \E id \in StatsPeriodIds : DeletePeriod(id, FALSE, FALSE)
    \/ \E r \in NewRecords :
          Len(expenses) + Len(income) < MaxStatsTx /\ AddExpense(r, now, FALSE, FALSE)
    \/ \E r \in NewRecords :
          Len(expenses) + Len(income) < MaxStatsTx /\ AddIncome(r, now, FALSE, FALSE)
    \/ \E id \in StatsPeriodIds : GetExpensesForPeriod(id, FALSE, FALSE)
    \/ \E id \in StatsPeriodIds : GetIncomeForPeriod(id, FALSE, FALSE)
    \/ \E id \in StatsPeriodIds : CalculateStatsForPeriod(id, NoReadFails)
    \/ CalculateMonthlyTotals(NoReadFails)

SpecStats == Init /\ [][StatsNext]_vars

\* Every mutating operation with AsyncStorage failing at will: each read
\* and each write of a call either succeeds or fails.  At most MaxTx
\* records and MaxStatsPeriods periods are stored.
FaultNext ==
    \E readFails, writeFails \in BOOLEAN :
        \/ \E r \in FaultNewRecords, t \in Clock :
              /\ Len(expenses) + Len(income) < MaxTx
              /\ AddExpense(r, t, readFails, writeFails)
        \/ \E r \in FaultRecords : UpdateExpense(r, readFails, writeFails)
        \/ \E id \in TxIds : DeleteExpense(id, readFails, writeFails)
        \/ ClearExpenses(writeFails)
        \/ \E r \in FaultNewRecords, t \in Clock :
              /\ Len(expenses) + Len(income) < MaxTx
              /\ AddIncome(r, t, readFails, writeFails)
        \/ \E r \in FaultRecords : UpdateIncome(r, readFails, writeFails)
        \/ \E id \in TxIds : DeleteIncome(id, readFails, writeFails)
        \/ ClearIncome(writeFails)
        \/ \E d \in StatsStarts :
              /\ Len(periods) < MaxStatsPeriods
              /\ CreateCustomPeriod(d, NoName, readFails, writeFails)
        \/ \E id \in StatsPeriodIds : SetActivePeriod(id, readFails, writeFails)
        \/ \E id \in StatsPeriodIds : DeletePeriod(id, readFails, writeFails)

SpecFault == Init /\ [][FaultNext]_vars

\* The read-only calls with AsyncStorage.getItem failing at will, over the
\* values the mutating calls store when storage does not fail.  At most
\* MaxStatsPeriods periods and MaxTx records are stored.
ReadFaultNext ==
    \/ \E d \in StatsStarts :
          Len(periods) < MaxStatsPeriods /\ CreateCustomPeriod(d, NoName, FALSE, FALSE)
    \/ \E r \in FaultNewRecords :
          Len(expenses) + Len(income) < MaxTx /\ AddExpense(r, now, FALSE, FALSE)
    \/ \E r \in FaultNewRecords :
          Len(expenses) + Len(income) < MaxTx /\ AddIncome(r, now, FALSE, FALSE)
    \/ \E readFails \in BOOLEAN : GetExpenses(readFails)
    \/ \E readFails \in BOOLEAN : GetIncome(readFails)
    \/ \E readFails \in BOOLEAN : GetAllPeriods(readFails)
    \/ \E readFails \in BOOLEAN : GetActivePeriod(readFails)
    \/ \E id \in StatsPeriodIds, periodsFail, expensesFail \in BOOLEAN :
          GetExpensesForPeriod(id, periodsFail, expensesFail)
    \/ \E id \in StatsPeriodIds, periodsFail, incomeFail \in BOOLEAN :
          GetIncomeForPeriod(id, periodsFail, incomeFail)
    \/ \E id \in StatsPeriodIds, f \in ReadFails : CalculateStatsForPeriod(id, f)
    \/ \E f \in ReadFails : CalculateMonthlyTotals(f)

SpecReadFault == Init /\ [][ReadFaultNext]_vars

\* The add calls of MaxCallers callers, in flight together or one after
\* the other, storage never failing
OverlapNext ==
    \E c \in Callers :
        \/ \E op \in {"addExpense", "addIncome"}, r \in FaultNewRecords : AddReads(c, op, r)
        \/ \E t \in Clock : AddWrites(c, t)

SpecOverlap == Init /\ [][OverlapNext]_vars

\* Every mutating operation of the three stores and of the PIN, every
\* call run to completion, storage never failing.  At most MaxTx records
\* and MaxStatsPeriods periods are stored, every period starting at 1;
\* PINs have four digits and are confirmed as entered.
FrameNext ==
    \/ \E r \in FaultNewRecords :
          Len(expenses) + Len(income) < MaxTx /\ AddExpense(r, now, FALSE, FALSE)
    \/ \E r \in FaultRecords : UpdateExpense(r, FALSE, FALSE)
    \/ \E id \in TxIds : DeleteExpense(id, FALSE, FALSE)
    \/ ClearExpenses(FALSE)
    \/ \E r \in FaultNewRecords :
          Len(expenses) + Len(income) < MaxTx /\ AddIncome(r, now, FALSE, FALSE)
    \/ \E r \in FaultRecords : UpdateIncome(r, FALSE, FALSE)
    \/ \E id \in TxIds : DeleteIncome(id, FALSE, FALSE)
    \/ ClearIncome(FALSE)
    \/ Len(periods) < MaxStatsPeriods /\ CreateCustomPeriod(1, NoName, FALSE, FALSE)
    \/ \E id \in 0 .. 1 : SetActivePeriod(id, FALSE, FALSE)
    \/ \E id \in 0 .. 1 : DeletePeriod(id, FALSE, FALSE)
    \/ \E p \in FramePins, d \in Draws : SetupPIN(p, d, FALSE, FALSE)
    \/ \E c \in GeneratedCodes, p \in FramePins, d \in Draws :
          ResetPINWithRecoveryCode(c, p, d, FALSE, FALSE, FALSE)
    \/ \E currentPin, newPin \in FramePins :
          handleChangePINSubmit(currentPin, newPin, newPin, FALSE, FALSE)
    \/ ClearPINData(FALSE, FALSE)

SpecFrame == Init /\ [][FrameNext]_vars

\* The period registry with start dates on both sides of the end of
\* daylight saving time, every call run to completion, storage never
\* failing.  At most MaxStatsPeriods periods are stored.
CalendarNext ==
    \/ \E d \in CalendarStarts :
          Len(periods) < MaxStatsPeriods /\ CreateCustomPeriod(d, NoName, FALSE, FALSE)
    \/ \E id \in CalendarStarts : SetActivePeriod(id, FALSE, FALSE)
    \/ \E id \in CalendarStarts : DeletePeriod(id, FALSE, FALSE)

SpecCalendar == Init /\ [][CalendarNext]_vars

\* The period registry with setActivePeriod given the ids of stored
\* periods only, as the period screen does, every call run to completion,
\* storage never failing
StoredIdNext ==
    \/ \E d \in StartDates, n \in CustomNames : CreateCustomPeriod(d, n, FALSE, FALSE)
    \/ \E id \in PeriodIds :
          FindById(periods, id) # NoPeriod /\ SetActivePeriod(id, FALSE, FALSE)
    \/ \E id \in PeriodIds : DeletePeriod(id, FALSE, FALSE)

SpecStoredId == Init /\ [][StoredIdNext]_vars

\* calculateMonthlyTotals with period calls completing between its reads.
\* Records are added only while no totals call is in flight.  At most
\* MaxStatsPeriods periods and MaxTx records are stored.
TotalsOverlapNext ==
    \/ \E d \in StatsStarts :
          Len(periods) < MaxStatsPeriods /\ CreateCustomPeriod(d, NoName, FALSE, FALSE)
    \/ \E id \in StatsPeriodIds : SetActivePeriod(id, FALSE, FALSE)
    \/ \E id \in StatsPeriodIds : DeletePeriod(id, FALSE, FALSE)
    \/ \E r \in NewRecords :
          /\ \A c \in Callers : calls[c].pc # "income"
          /\ Len(expenses) + Len(income) < MaxTx
          /\ AddExpense(r, now, FALSE, FALSE)
    \/ \E r \in NewRecords :
          /\ \A c \in Callers : calls[c].pc # "income"
          /\ Len(expenses) + Len(income) < MaxTx
          /\ AddIncome(r, now, FALSE, FALSE)
    \/ \E c \in Callers : TotalsReadsIncome(c)
    \/ \E c \in Callers : TotalsReadsExpenses(c)

SpecTotalsOverlap == Init /\ [][TotalsOverlapNext]_vars

\* The period calls in flight together, each one a read followed by a
\* write.  A period is created only for a start date that no period read
\* by the call has, so every array written has pairwise distinct ids.  At
\* most MaxStatsPeriods periods are stored.
PeriodOverlapNext ==
    \/ \E c \in Callers, d \in StatsStarts :
          /\ Len(periods) < MaxStatsPeriods
          /\ FindById(periods, d) = NoPeriod
          /\ PeriodReads(c, "createCustomPeriod", d)
    \/ \E c \in Callers, id \in StatsPeriodIds : PeriodReads(c, "setActivePeriod", id)
    \/ \E c \in Callers, id \in StatsPeriodIds : PeriodReads(c, "deletePeriod", id)
    \/ \E c \in Callers : PeriodWrites(c)

SpecPeriodOverlap == Init /\ [][PeriodOverlapNext]_vars

\* The PIN functions, every call run to completion, storage never failing
PinNext ==
    \/ \E p \in Pins, d \in Draws : SetupPIN(p, d, FALSE, FALSE)
    \/ \E p \in Pins : VerifyPIN(p, FALSE)
    \/ \E c \in CodeInputs : VerifyRecoveryCode(c, FALSE)
    \/ \E c \in CodeInputs, p \in Pins, d \in Draws :
          ResetPINWithRecoveryCode(c, p, d, FALSE, FALSE, FALSE)
    \/ \E currentPin, newPin, confirmPin \in Pins :
          handleChangePINSubmit(currentPin, newPin, confirmPin, FALSE, FALSE)
    \/ ClearPINData(FALSE, FALSE)

SpecPin == Init /\ [][PinNext]_vars

----------------------------------------------------------------------------
(* Properties of the period registry *)

ActiveIndexes(ps) == {i \in 1 .. Len(ps) : ps[i].isActive}
ActivePeriods(ps) == {ps[i] : i \in ActiveIndexes(ps)}
StoredSet(ps) == {ps[i] : i \in 1 .. Len(ps)}
HasPeriodId(ps, id) == \E i \in 1 .. Len(ps) : ps[i].id = id
MaxStartDate(ps) ==
    CHOOSE d \in {ps[i].startDate : i \in 1 .. Len(ps)} :
        \A i \in 1 .. Len(ps) : ps[i].startDate <= d

\* C1: after every create / setActive / delete, at most one stored period
\* has isActive = true.
C1_AtMostOneActive == Cardinality(ActiveIndexes(periods)) <= 1

\* C2: setActive(id) with an id that matches no stored period leaves the
\* stored period set as it was; the period that was active stays active.
C2_SetActiveUnknownIsNoOp ==
    [][(last'.op = "setActivePeriod" /\ last'.ret = "ok"
            /\ ~HasPeriodId(periods, last'.arg))
        => /\ StoredSet(periods') = StoredSet(periods)
           /\ getActivePeriod(periods', FALSE) = getActivePeriod(periods, FALSE)]_vars

\* C3: delete(id) of the active period with survivors leaves exactly one
\* active period, a survivor with the maximum startDate; with no survivor
\* getActive() returns none; delete(id) of a period that is not active
\* leaves the active period as it was.
C3_DeletionReattribution ==
    [][(last'.op = "deletePeriod" /\ last'.ret = "ok")
        => LET id == last'.arg
               removedActive ==
                   \E i \in 1 .. Len(periods) : periods[i].id = id /\ periods[i].isActive
               survivors ==
                   {[p EXCEPT !.isActive = FALSE] :
                        p \in {q \in StoredSet(periods) : q.id # id}}
           IN  /\ (removedActive /\ survivors # {})
                    => /\ Cardinality(ActiveIndexes(periods')) = 1
                       /\ \A p \in ActivePeriods(periods') :
                              /\ [p EXCEPT !.isActive = FALSE] \in survivors
                              /\ \A q \in survivors : q.startDate <= p.startDate
                       /\ getActivePeriod(periods', FALSE) \in ActivePeriods(periods')
               /\ survivors = {} => getActivePeriod(periods', FALSE) = NoPeriod
               /\ ~removedActive
                    => /\ ActivePeriods(periods') = ActivePeriods(periods)
                       /\ getActivePeriod(periods', FALSE) = getActivePeriod(periods, FALSE)]_vars

\* C3 witness: the active period was deleted, two survivors with different
\* start dates remain, and the newer one is now the active one.
C3_Witness ==
    /\ last.op = "deletePeriod" /\ last.ret = "ok"
    /\ last.local # NoPeriod /\ last.local.isActive
    /\ Len(periods) >= 2
    /\ \E i, j \in 1 .. Len(periods) : periods[i].startDate < periods[j].startDate
    /\ \E i \in 1 .. Len(periods) :
          periods[i].isActive /\ periods[i].startDate = MaxStartDate(periods)

\* C11: after create(startDate, name?) completes, the returned period is
\* stored with isActive = true, every period stored before the call is
\* stored with isActive = false, and getActive() returns the returned period.
C11_CreateActivates ==
    [][(last'.op = "createCustomPeriod" /\ last'.ret = "ok")
        => LET created == last'.out
               new == {i \in 1 .. Len(periods') : periods'[i] = created}
           IN  /\ created.isActive
               /\ new # {}
               /\ Len(periods') = Len(periods) + 1
               /\ \E n \in new :
                      /\ ActiveIndexes(periods') = {n}
                      /\ \A p \in StoredSet(periods) :
                             Cardinality({i \in 1 .. Len(periods') \ {n} :
                                 periods'[i] = [p EXCEPT !.isActive = FALSE]})
                             = Cardinality({i \in 1 .. Len(periods) :
                                 [periods[i] EXCEPT !.isActive = FALSE]
                                     = [p EXCEPT !.isActive = FALSE]})
               /\ getActivePeriod(periods', FALSE) = created]_vars

\* C11 witness: a period was created with a start date older than that of
\* a stored period, so it is not the first of the sorted list, and it is
\* the only active one of three.
C11_Witness ==
    /\ last.op = "createCustomPeriod" /\ last.ret = "ok"
    /\ Len(periods) = 3
    /\ last.out.startDate < MaxStartDate(periods)
    /\ getActivePeriod(periods, FALSE) = last.out
    /\ Cardinality(ActiveIndexes(periods)) = 1

\* C12: setActive(id) with the id of a stored period leaves exactly that
\* period with isActive = true and every other stored period with
\* isActive = false, and the set of stored ids is as before the call.
C12_SetActiveExactlyOne ==
    [][(last'.op = "setActivePeriod" /\ last'.ret = "ok"
            /\ HasPeriodId(periods, last'.arg))
        => /\ Cardinality(ActiveIndexes(periods')) = 1
           /\ \A i \in ActiveIndexes(periods') : periods'[i].id = last'.arg
           /\ {p.id : p \in StoredSet(periods')} = {p.id : p \in StoredSet(periods)}]_vars

\* C10: no two stored periods share an id.
C10_UniquePeriodIds ==
    \A i, j \in 1 .. Len(periods) : periods[i].id = periods[j].id => i = j

----------------------------------------------------------------------------
(* Properties of the ledger store *)

IdCount(xs, id) == Cardinality({i \in 1 .. Len(xs) : xs[i].id = id})

\* C7: after update(record) of a stored id the collection holds exactly one
\* record with that id, it is the record passed, and the length is as before.
C7_UpdatePreservesIdentity ==
    [][/\ (last'.op = "updateExpense" /\ last'.ret = "ok" /\ last'.local # 0)
            => /\ IdCount(expenses', last'.arg.id) = 1
               /\ \A i \in 1 .. Len(expenses') :
                      expenses'[i].id = last'.arg.id => expenses'[i] = last'.arg
               /\ Len(expenses') = Len(expenses)
       /\ (last'.op = "updateIncome" /\ last'.ret = "ok" /\ last'.local # 0)
            => /\ IdCount(income', last'.arg.id) = 1
               /\ \A i \in 1 .. Len(income') :
                      income'[i].id = last'.arg.id => income'[i] = last'.arg
               /\ Len(income') = Len(income)]_vars

\* C13: update(record) and delete(id) of an id that is not in the
\* collection report no failure and leave the collection that list()
\* returns identical, same records in the same order.
C13_NotFoundIsNoOp ==
    [][/\ (last'.op \in {"updateExpense", "updateIncome"}
               /\ IdCount(IF last'.op = "updateExpense" THEN expenses ELSE income,
                          last'.arg.id) = 0)
            => /\ last'.ret = "ok"
               /\ getExpenses(expenses', FALSE) = getExpenses(expenses, FALSE)
               /\ getIncome(income', FALSE) = getIncome(income, FALSE)
       /\ (last'.op \in {"deleteExpense", "deleteIncome"}
               /\ IdCount(IF last'.op = "deleteExpense" THEN expenses ELSE income,
                          last'.arg) = 0)
            => /\ last'.ret = "ok"
               /\ getExpenses(expenses', FALSE) = getExpenses(expenses, FALSE)
               /\ getIncome(income', FALSE) = getIncome(income, FALSE)]_vars

\* C13 witness: a delete of an id that none of the two stored expenses
\* has, which are still stored.
C13_Witness ==
    /\ last.op = "deleteExpense" /\ last.ret = "ok"
    /\ Len(expenses) = MaxTx
    /\ IdCount(expenses, last.arg) = 0
    /\ expenses[1] # expenses[2]

\* C9: no two records of one collection share an id.
C9_UniqueTxIds ==
    /\ \A i, j \in 1 .. Len(expenses) : expenses[i].id = expenses[j].id => i = j
    /\ \A i, j \in 1 .. Len(income) : income[i].id = income[j].id => i = j

\* the mutating operations
Mutators ==
    {"addExpense", "updateExpense", "deleteExpense", "clearExpenses",
     "addIncome", "updateIncome", "deleteIncome", "clearIncome",
     "createCustomPeriod", "setActivePeriod", "deletePeriod"}

\* C8: a mutating operation whose storage write or remove fails reports a
\* failure to its caller, and the stored values are unchanged.
C8_WriteFailuresSurfaced ==
    [][(last'.op \in Mutators /\ last'.wrote = "failed")
        => /\ last'.ret = "threw"
           /\ UNCHANGED <<expenses, income, periods>>]_vars

----------------------------------------------------------------------------
(* Properties of the PIN functions *)

\* C16: resetWithRecoveryCode(code, newPin) with a code that does not
\* verify returns false and leaves the stored PIN and the stored recovery
\* code unchanged.
C16_WrongCodeRejected ==
    [][(last'.op = "resetPINWithRecoveryCode"
            /\ ~verifyRecoveryCode(last'.arg.recoveryCode, recoveryCode, FALSE))
        => /\ last'.ret = "ok" /\ last'.out = FALSE
           /\ pin' = pin
           /\ recoveryCode' = recoveryCode]_vars

\* C16 witness: a reset was refused for a code of the issued form that is
\* not the stored one, with a new PIN other than the stored one.
C16_Witness ==
    /\ last.op = "resetPINWithRecoveryCode" /\ last.out = FALSE
    /\ pin # Null /\ recoveryCode # Null
    /\ last.arg.recoveryCode \in GeneratedCodes
    /\ last.arg.recoveryCode # recoveryCode
    /\ last.arg.newPIN # pin

\* C17: after resetWithRecoveryCode(code, newPin) returned true, newPin
\* verifies, the previous PIN does not unless it equals newPin, the code
\* used no longer verifies and only the newly stored code does.
C17_ResetInvalidatesCode ==
    [][(last'.op = "resetPINWithRecoveryCode" /\ last'.out = TRUE)
        => /\ verifyPIN(last'.arg.newPIN, pin', FALSE)
           /\ (pin # Null /\ pin # last'.arg.newPIN) => ~verifyPIN(pin, pin', FALSE)
           /\ ~verifyRecoveryCode(last'.arg.recoveryCode, recoveryCode', FALSE)
           /\ recoveryCode' # Null /\ recoveryCode' # recoveryCode
           /\ verifyRecoveryCode(recoveryCode', recoveryCode', FALSE)]_vars

\* the characters of s that are neither white space nor a dash
Significant(s) ==
    LET Kept(c) == c \notin {" ", "\t", "\n", "-"}
    IN  SelectSeq(s, Kept)

\* x and y are one letter in either case, or one character
SameLetter(x, y) ==
    \/ x = y
    \/ \E k \in 1 .. Len(LowerLetters) : {x, y} = {LowerLetters[k], UpperLetters[k]}

\* a and b are equal up to letter case, white space and dashes
SameCode(a, b) ==
    LET sa == Significant(a)
        sb == Significant(b)
    IN  /\ Len(sa) = Len(sb)
        /\ \A i \in 1 .. Len(sa) : SameLetter(sa[i], sb[i])

\* C18: while a recovery code is stored, verifyRecoveryCode(code) returns
\* true exactly when code and the stored code are equal after upper-casing
\* both and removing white space and dashes from both; the code setup(pin)
\* returned verifies with or without its dash and in either letter case.
C18_CodeVerification ==
    /\ (last.op = "verifyRecoveryCode" /\ recoveryCode # Null)
         => (last.ret = "ok" /\ last.out = SameCode(last.arg, recoveryCode))
    /\ (last.op = "setupPIN" /\ last.ret = "ok")
         => \A c \in {last.out, Significant(last.out), toLowerCase(last.out),
                      toLowerCase(Significant(last.out))} :
                verifyRecoveryCode(c, recoveryCode, FALSE)

\* C18 witness: the stored code was entered in lower case without its dash
\* and verified.
C18_Witness ==
    /\ last.op = "verifyRecoveryCode" /\ last.out = TRUE
    /\ recoveryCode # Null
    /\ last.arg = toLowerCase(Significant(recoveryCode))
    /\ last.arg # recoveryCode

\* C19: the change-PIN operation writes the stored PIN only when
\* verify(currentPin) succeeded, verify(pin) being true exactly when a PIN
\* is stored and equals pin; with a wrong currentPin the stored PIN and the
\* stored recovery code are unchanged.
C19_ChangeRequiresCurrentPin ==
    [][/\ last'.op = "verifyPIN"
            => (last'.out <=> (pin # Null /\ pin = last'.arg))
       /\ last'.op = "handleChangePINSubmit"
            => /\ last'.local <=> (pin # Null /\ pin = last'.arg.currentPin)
               /\ (last'.wrote # "none" \/ pin' # pin) => last'.local
               /\ ~(pin # Null /\ pin = last'.arg.currentPin)
                     => (pin' = pin /\ recoveryCode' = recoveryCode)]_vars

\* C19 witness: a change to a new PIN that was well formed and confirmed
\* was refused because currentPin was not the stored PIN.
C19_Witness ==
    /\ last.op = "handleChangePINSubmit" /\ last.local = FALSE
    /\ pin # Null /\ recoveryCode # Null
    /\ last.arg.currentPin # pin
    /\ last.arg.newPin = last.arg.confirmPin
    /\ Len(last.arg.newPin) >= MinPinLength
    /\ last.arg.newPin # pin

----------------------------------------------------------------------------
(* Properties of the aggregation engine *)

\* the positions of the records of xs dated within [startDate, endDate]
InRange(xs, startDate, endDate) ==
    {i \in 1 .. Len(xs) : startDate <= xs[i].date /\ xs[i].date <= endDate}

\* how many times record r occurs in xs
Occurrences(xs, r) == Cardinality({i \in 1 .. Len(xs) : xs[i] = r})

RECURSIVE SumAt(_, _)
\* the sum of the amounts of xs at the positions in S
SumAt(xs, S) ==
    IF S = {} THEN 0
    ELSE LET i == CHOOSE k \in S : TRUE
         IN  xs[i].amount + SumAt(xs, S \ {i})

\* out holds exactly the records of xs at the positions in S
HoldsExactly(out, xs, S) ==
    /\ Len(out) = Cardinality(S)
    /\ \A r \in StoredSet(xs) \cup StoredSet(out) :
          Occurrences(out, r) = Cardinality({i \in S : xs[i] = r})

\* C4: for a stored period P, a stored record T is returned by the
\* per-period queries of P.id and counted by statsForPeriod(P.id) exactly
\* when P.startDate <= T.date <= P.endDate, whichever period is active.
C4_MembershipCorrectness ==
    \A P \in StoredSet(periods) :
        /\ (last.op = "getExpensesForPeriod" /\ last.arg = P.id)
             => HoldsExactly(last.out, expenses,
                             InRange(expenses, P.startDate, P.endDate))
        /\ (last.op = "getIncomeForPeriod" /\ last.arg = P.id)
             => HoldsExactly(last.out, income,
                             InRange(income, P.startDate, P.endDate))
        /\ (last.op = "calculateStatsForPeriod" /\ last.arg = P.id)
             => /\ last.out.expenseCount =
                     Cardinality(InRange(expenses, P.startDate, P.endDate))
                /\ last.out.incomeCount =
                     Cardinality(InRange(income, P.startDate, P.endDate))

\* C4 witness: a per-period query of a period that is not the active one,
\* with a record on its last day returned and a record outside it left out.
C4_Witness ==
    /\ last.op = "getExpensesForPeriod"
    /\ \E P \in StoredSet(periods) :
          /\ P.id = last.arg /\ ~P.isActive
          /\ \E i \in 1 .. Len(expenses) : expenses[i].date = P.endDate
          /\ \E i \in 1 .. Len(expenses) : expenses[i].date = P.endDate + 1
          /\ Len(last.out) = 1

\* C5: statsForPeriod of a stored period returns the sums and the numbers
\* of the income and expense records in range, and balance = totalIncome -
\* totalExpenses.
C5_BalanceIdentity ==
    \A P \in StoredSet(periods) :
        (last.op = "calculateStatsForPeriod" /\ last.arg = P.id) =>
            LET inc == InRange(income, P.startDate, P.endDate)
                exp == InRange(expenses, P.startDate, P.endDate)
            IN  /\ last.out.totalIncome = SumAt(income, inc)
                /\ last.out.totalExpenses = SumAt(expenses, exp)
                /\ last.out.incomeCount = Cardinality(inc)
                /\ last.out.expenseCount = Cardinality(exp)
                /\ last.out.balance = last.out.totalIncome - last.out.totalExpenses

\* C5 witness: stats of a stored period with two expenses of different
\* amounts and one income in range, and a negative balance.
C5_Witness ==
    /\ last.op = "calculateStatsForPeriod"
    /\ HasPeriodId(periods, last.arg)
    /\ last.out.expenseCount = 2 /\ last.out.incomeCount = 1
    /\ expenses[1].amount # expenses[2].amount
    /\ last.out.balance < 0

ZeroStats ==
    [totalIncome |-> 0, totalExpenses |-> 0, balance |-> 0,
     incomeCount |-> 0, expenseCount |-> 0]

\* C6: statsForPeriod of an id that no stored period has, and
\* statsForActivePeriod when no period is active, return all-zero
\* aggregates and do not fail, whatever the ledger holds.
C6_ZeroedStats ==
    /\ (last.op = "calculateStatsForPeriod" /\ ~HasPeriodId(periods, last.arg))
         => (last.ret = "ok" /\ last.out = ZeroStats)
    /\ (last.op = "calculateMonthlyTotals" /\ ActiveIndexes(periods) = {})
         => (last.ret = "ok" /\ last.out = ZeroStats)

\* C6 witness: stats of an unknown id while periods, expenses and income
\* are stored and no period is active.
C6_Witness ==
    /\ last.op = "calculateStatsForPeriod"
    /\ ~HasPeriodId(periods, last.arg)
    /\ periods # <<>> /\ ActiveIndexes(periods) = {}
    /\ expenses # <<>> /\ income # <<>>
    /\ \E P \in StoredSet(periods) : InRange(income, P.startDate, P.endDate) # {}

\* C20: while a period A is active, calculateMonthlyTotals() returns the
\* five values that calculateStatsForPeriod(A.id) returns.
C20_ActiveStatsAgree ==
    (last.op = "calculateMonthlyTotals" /\ last.ret = "ok") =>
        \A A \in ActivePeriods(periods) :
            last.out = calculateStatsForPeriod(A.id, NoReadFails)

\* C20 witness: the totals of an active period that is not the newest
\* stored one, with an expense inside it counted and a record outside it.
C20_Witness ==
    /\ last.op = "calculateMonthlyTotals"
    /\ \E A \in ActivePeriods(periods) :
          /\ A.startDate < MaxStartDate(periods)
          /\ InRange(expenses, A.startDate, A.endDate) # {}
          /\ \E i \in 1 .. Len(income) : income[i].date > A.endDate
    /\ last.out.expenseCount >= 1

\* the read-only operations
Readers ==
    {"getExpenses", "getIncome", "getAllPeriods", "getActivePeriod",
     "getExpensesForPeriod", "getIncomeForPeriod",
     "calculateStatsForPeriod", "calculateMonthlyTotals"}

\* C14: when a storage read fails, list() on expenses, income and periods
\* returns the empty collection, getActive() returns none, the per-period
\* queries return the empty list and the stats count nothing on the side a
\* read failed for, all zero when every read failed; no read-only
\* operation reports a failure.
C14_ReadFailuresDegrade ==
    /\ last.op \in Readers => last.ret = "ok"
    /\ (last.op \in {"getExpenses", "getIncome", "getAllPeriods",
                     "getExpensesForPeriod", "getIncomeForPeriod"}
            /\ last.reads # {}) => last.out = <<>>
    /\ (last.op = "getActivePeriod" /\ last.reads # {}) => last.out = NoPeriod
    /\ last.op \in {"calculateStatsForPeriod", "calculateMonthlyTotals"}
         => /\ last.reads \cap {"p1", "inc"} # {}
                 => (last.out.totalIncome = 0 /\ last.out.incomeCount = 0)
            /\ last.reads \cap {"p2", "exp"} # {}
                 => (last.out.totalExpenses = 0 /\ last.out.expenseCount = 0)
            /\ last.reads = {"p1", "inc", "p2", "exp"} => last.out = ZeroStats

\* C14 witness: the stats of a stored period that holds an expense and an
\* income in range, every read of the call having failed.
C14_Witness ==
    /\ last.op = "calculateStatsForPeriod"
    /\ last.reads = {"p1", "inc", "p2", "exp"}
    /\ \E P \in StoredSet(periods) :
          /\ P.id = last.arg
          /\ InRange(expenses, P.startDate, P.endDate) # {}
          /\ InRange(income, P.startDate, P.endDate) # {}
    /\ last.out = ZeroStats

----------------------------------------------------------------------------
(* Properties of calls in flight together *)

\* the collection an add call works on
CollectionOf(op, exps, incs) == IF op = "addExpense" THEN exps ELSE incs

\* C15: two add() calls on one collection that both read before either
\* writes can both complete while only one of the two new records is
\* stored (the witness); an add that no other add of the collection wrote
\* in between its read and its write, as when calls run one after the
\* other, completes with the collection grown by exactly its record.
C15_LostUpdateOnlyUnderOverlap ==
    [][\A c \in Callers :
          (calls[c].pc = "read" /\ calls'[c].pc = "done" /\ ~calls[c].overlapped)
            => LET before == CollectionOf(calls[c].op, expenses, income)
                   after == CollectionOf(calls[c].op, expenses', income')
               IN  /\ last'.ret = "ok"
                   /\ Len(after) = Len(before) + 1
                   /\ after[1] = calls'[c].new
                   /\ Tail(after) = before]_vars

\* C15 witness: both callers completed an addExpense, each having read
\* the empty collection, and only the record of one of them is stored.
C15_Witness ==
    /\ \A c \in Callers :
          calls[c].pc = "done" /\ calls[c].op = "addExpense" /\ calls[c].xs = <<>>
    /\ calls[1].new # calls[2].new
    /\ Len(expenses) = 1
    /\ expenses[1] = calls[2].new
    /\ IdCount(expenses, calls[1].new.id) = 0

----------------------------------------------------------------------------
(* Order of the ledger collections *)

\* xs without the element at position i
WithoutAt(xs, i) == SubSeq(xs, 1, i - 1) \o SubSeq(xs, i + 1, Len(xs))

\* sub is xs with some elements left out, the others in their order
RECURSIVE IsSubsequence(_, _)
IsSubsequence(sub, xs) ==
    IF sub = <<>> THEN TRUE
    ELSE IF xs = <<>> THEN FALSE
    ELSE IF Head(sub) = Head(xs) THEN IsSubsequence(Tail(sub), Tail(xs))
    ELSE IsSubsequence(sub, Tail(xs))

----------------------------------------------------------------------------
(* Frame of the operations *)

PeriodMutators == {"createCustomPeriod", "setActivePeriod", "deletePeriod"}
ExpenseMutators == {"addExpense", "updateExpense", "deleteExpense", "clearExpenses"}
IncomeMutators == {"addIncome", "updateIncome", "deleteIncome", "clearIncome"}
PinMutators ==
    {"setupPIN", "resetPINWithRecoveryCode", "handleChangePINSubmit", "clearPINData"}

\* C22: create, setActive and delete on periods leave the expense and
\* income collections unchanged; add, update, delete and clear on one
\* transaction collection leave the other one and the periods unchanged;
\* PIN operations change none of the three.
C22_ResourceIndependence ==
    [][/\ last'.op \in PeriodMutators => (expenses' = expenses /\ income' = income)
       /\ last'.op \in ExpenseMutators => (income' = income /\ periods' = periods)
       /\ last'.op \in IncomeMutators => (expenses' = expenses /\ periods' = periods)
       /\ last'.op \in PinMutators
            => (expenses' = expenses /\ income' = income /\ periods' = periods)]_vars

\* C22 witness: a period was deleted while an expense and an income dated
\* within it are stored, and they still are.
C22_Witness ==
    /\ last.op = "deletePeriod" /\ last.ret = "ok"
    /\ last.local # NoPeriod
    /\ ~HasPeriodId(periods, last.arg)
    /\ \E i \in 1 .. Len(expenses) : isDateInPeriod(expenses[i].date, last.local)
    /\ \E i \in 1 .. Len(income) : isDateInPeriod(income[i].date, last.local)

----------------------------------------------------------------------------
(* Immutability of the stored periods *)

\* a period without its isActive flag
Core(p) == [id |-> p.id, startDate |-> p.startDate, endDate |-> p.endDate, name |-> p.name]

\* how many periods of ps have the core k
CoreCount(ps, k) == Cardinality({i \in 1 .. Len(ps) : Core(ps[i]) = k})

\* C23: create, setActive and delete change no stored period but in its
\* isActive flag: every period stored after the call has the id,
\* startDate, endDate and name of a period stored before it, or is the
\* period the call created.
C23_PeriodsImmutable ==
    [][last'.op \in PeriodMutators
        => \A i \in 1 .. Len(periods') :
              LET k == Core(periods'[i])
                  created == last'.op = "createCustomPeriod" /\ last'.ret = "ok"
                                 /\ Core(last'.out) = k
              IN  CoreCount(periods', k)
                      <= CoreCount(periods, k) + (IF created THEN 1 ELSE 0)]_vars

\* C23 witness: setActive made a period with a custom name the active one
\* while a period with a generated name is stored and inactive.
C23_Witness ==
    /\ last.op = "setActivePeriod" /\ last.ret = "ok"
    /\ \E i, j \in 1 .. Len(periods) :
          /\ periods[i].isActive /\ periods[i].id = last.arg
          /\ periods[i].name = <<"Trip">>
          /\ ~periods[j].isActive /\ periods[j].name # <<"Trip">>

\* C24: list() on periods returns exactly the stored periods, in
\* non-increasing order of startDate, whatever order they are stored in.
C24_ListSortedNewestFirst ==
    LET listed == getAllPeriods(periods, FALSE)
    IN  /\ Len(listed) = Len(periods)
        /\ \A p \in StoredSet(periods) \cup StoredSet(listed) :
               Occurrences(listed, p) = Occurrences(periods, p)
        /\ \A i, j \in 1 .. Len(listed) :
               i < j => listed[i].startDate >= listed[j].startDate

\* C24 witness: create stored a period in front of two newer ones, so the
\* stored array is not in the order list() returns.
C24_Witness ==
    /\ last.op = "createCustomPeriod" /\ last.ret = "ok"
    /\ Len(periods) = 3
    /\ periods[1].startDate < periods[3].startDate
    /\ periods[3].startDate < periods[2].startDate
    /\ getAllPeriods(periods, FALSE) # periods

----------------------------------------------------------------------------
(* The length of a period *)

\* C25: every period create returned and every stored period has endDate
\* equal to startDate plus exactly 30 days, 30 * 24 hours on this time
\* line, whatever the start date.
C25_EndDateFixedOffset ==
    /\ \A p \in StoredSet(periods) : p.endDate = p.startDate + PeriodDays * HoursPerDay
    /\ (last.op = "createCustomPeriod" /\ last.ret = "ok")
         => last.out.endDate = last.out.startDate + PeriodDays * HoursPerDay

\* C26: when setActive is only given ids of stored periods, a registry
\* that holds a period has exactly one period with isActive = true.
C26_ExactlyOneActive ==
    periods # <<>> => Cardinality(ActiveIndexes(periods)) = 1

----------------------------------------------------------------------------
(* Totals while period calls complete *)

\* the totals of the records dated within period P
TotalsWithin(P) ==
    LET inc == InRange(income, P.startDate, P.endDate)
        exp == InRange(expenses, P.startDate, P.endDate)
    IN  [totalIncome   |-> SumAt(income, inc),
         totalExpenses |-> SumAt(expenses, exp),
         balance       |-> SumAt(income, inc) - SumAt(expenses, exp),
         incomeCount   |-> Cardinality(inc),
         expenseCount  |-> Cardinality(exp)]

\* C27: when period calls complete between the reads of
\* calculateMonthlyTotals and the ledger is not changed during the call,
\* the totals returned are all zero or the totals of one period, income
\* and expenses alike.  Any period that create can return is admitted,
\* which asks less than a period that was active during the call.
C27_TotalsOfOnePeriod ==
    last.op = "calculateMonthlyTotals" =>
        \/ last.out = ZeroStats
        \/ \E d \in StatsStarts :
              last.out = TotalsWithin(CreateMonthPeriod(d, NoName, TRUE))

----------------------------------------------------------------------------
(* Failed reads inside mutating calls *)

\* the id of the record a call is aimed at; an add or a create has none
TargetOf(o) ==
    CASE o.op \in {"updateExpense", "updateIncome"} -> {o.arg.id}
      [] o.op \in {"deleteExpense", "deleteIncome", "setActivePeriod", "deletePeriod"}
           -> {o.arg}
      [] OTHER -> {}

\* every record of `before` that is not a target is in `after`, by its id
KeptById(before, after, targets) ==
    \A i \in DOMAIN before :
        before[i].id \notin targets => \E j \in DOMAIN after : after[j].id = before[i].id

\* C28: when the storage read of add, update or delete on a transaction
\* collection, or of create, setActive or delete on periods, fails and
\* the write that follows succeeds, every record stored before the call
\* that is not the target of the call is still stored after it.
C28_FailedReadLosesNothing ==
    [][(/\ last'.op \in {"addExpense", "updateExpense", "deleteExpense",
                         "addIncome", "updateIncome", "deleteIncome",
                         "createCustomPeriod", "setActivePeriod", "deletePeriod"}
        /\ last'.reads # {}
        /\ last'.wrote = "done")
         => /\ KeptById(expenses, expenses', TargetOf(last'))
            /\ KeptById(income, income', TargetOf(last'))
            /\ KeptById(periods, periods', TargetOf(last'))]_vars

----------------------------------------------------------------------------
(* Recovery while no code is stored *)

\* C29: while no recovery code is stored, verifyRecoveryCode(code) returns
\* false for every input, the empty string and strings of dashes and
\* white space included, and resetPINWithRecoveryCode leaves the PIN as
\* it is.
C29_NoRecoveryWithoutCode ==
    [][/\ (last'.op = "verifyRecoveryCode" /\ recoveryCode = Null)
            => last'.out = FALSE
       /\ (last'.op = "resetPINWithRecoveryCode" /\ recoveryCode = Null)
            => (last'.out = FALSE /\ pin' = pin)]_vars

----------------------------------------------------------------------------
(* Period calls in flight together *)

\* caller c's call completes in this step
PeriodCallCompletes(c) ==
    /\ calls[c].pc = "read" /\ calls'[c].pc = "done"
    /\ calls[c].op \in PeriodMutators

\* the last call of caller d was a delete that completed, of a period it
\* had read, and that period is not stored
DeletedBy(d) ==
    /\ calls[d].pc = "done" /\ calls[d].op = "deletePeriod"
    /\ HasPeriodId(calls[d].xs, calls[d].arg)
    /\ ~HasPeriodId(periods, calls[d].arg)

\* C30: with pairwise distinct ids, whatever the interleaving of create,
\* setActive and delete calls, every array written has at most one active
\* period, and a period whose delete has completed is not stored again
\* by a call other than a create of it.
C30_OverlapKeepsUniquenessAndDeletes ==
    [][\A c \in Callers :
          PeriodCallCompletes(c)
            => /\ Cardinality(ActiveIndexes(periods')) <= 1
               /\ \A d \in Callers \ {c} :
                     (DeletedBy(d)
                        /\ ~(calls[c].op = "createCustomPeriod"
                               /\ calls[c].arg = calls[d].arg))
                       => ~HasPeriodId(periods', calls[d].arg)]_vars

====
